---------------------------- MODULE Spec2Model ----------------------------
(***************************************************************************)
(* FusionPDF: value extraction, comparison and merge orchestration.        *)
(*                                                                         *)
(* Sources modelled:                                                       *)
(*   src/FusionPDF-web.py            (Single Comparison / Bulk Comparison) *)
(*   src/utils/fusion_core.py        (extract_value_from_pdf, compare_pdf_values) *)
(*   src/pages/2_Bulk_Comparison.py  (bulk page with the force-merge flag) *)
(*                                                                         *)
(* Text is modelled by TLA+ strings, indexed from 1.  Python floats are    *)
(* modelled by exact decimals [m, f] meaning m * 10^(-f), kept in lowest   *)
(* form so that equal numbers are equal records.                           *)
(***************************************************************************)
EXTENDS Integers, Sequences, FiniteSets, TLC

VARIABLES
    \* ---- numeric token normalisation
    token,        \* the raw token handed to a conversion
    norm_pc,      \* "start" | "parse_number_string" | "inline"
    norm_out,     \* the value the conversion returned
    \* ---- value extraction for a label
    ext_text,     \* the document text
    ext_label,    \* the label / keyword searched for
    ext_pc,       \* "start" | "web" | "core"
    ext_tokens,   \* the tokens the extractor kept for selection
    ext_out,      \* the value the extractor returned
    \* ---- one comparison
    cmp_val1,     \* compare_values: val1
    cmp_val2,     \* compare_values: val2
    cmp_inv,      \* compare_pdf_values: the invoice's text
    cmp_fac,      \* compare_pdf_values: the facture's text
    cmp_pc,       \* "values" | "pdfs" | "compare_values" | "compare_pdf_values"
    cmp_out,      \* the dict the comparison returned
    \* ---- the pages: one run of "Start Comparison" / "Start Bulk Comparison"
    \*      / "Run Bulk Comparison"
    page,         \* the page that runs
    invoices,     \* names of the uploaded invoice files
    factures,     \* names of the uploaded facture files
    force_merge,  \* 2_Bulk_Comparison's checkbox
    pc,           \* "ready" | "loop" | "done" | "raised" (uncaught exception)
    todo,         \* the names the loop has still to visit
    results,      \* one row per pair compared, in order
    success,      \* Bulk Comparison: success
    failed,       \* Bulk Comparison: failed
    merged,       \* names whose merged output was written
    \* ---- text acquisition: one call of extract_text_from_pdf
    acq_doc,      \* the document behind pdf_bytes
    acq_pc,       \* "start" | "pages" | "convert" | "ocr" | "returned"
    acq_i,        \* the page the running loop is at
    acq_text,     \* text
    acq_ocr_text, \* ocr_text
    acq_error     \* st.error("OCR failed: ...") was shown

normVars == <<token, norm_pc, norm_out>>

extVars == <<ext_text, ext_label, ext_pc, ext_tokens, ext_out>>

cmpVars == <<cmp_val1, cmp_val2, cmp_inv, cmp_fac, cmp_pc, cmp_out>>

pageVars ==
    <<page, invoices, factures, force_merge, pc, todo, results, success, failed, merged>>

acqVars == <<acq_doc, acq_pc, acq_i, acq_text, acq_ocr_text, acq_error>>

vars == <<normVars, extVars, cmpVars, pageVars, acqVars>>

-----------------------------------------------------------------------------
(* Bounds of the model                                                     *)

MaxTokenLen == 5

\* the greatest number of lines of an enumerated document text
MaxLines == 2

\* the number of distinct file names that can be uploaded
MaxFiles == 3

\* the greatest number of pages of a document
MaxPages == 3

\* the characters the enumerated tokens are written in
TokenAlphabet == {"1", "2", ".", ","}

-----------------------------------------------------------------------------
(* Strings                                                                 *)

Ch(s, i) == SubSeq(s, i, i)

Digits == {"0", "1", "2", "3", "4", "5", "6", "7", "8", "9"}

IsDigit(c) == c \in Digits

DigitVal(c) ==
    CASE c = "0" -> 0 [] c = "1" -> 1 [] c = "2" -> 2 [] c = "3" -> 3
      [] c = "4" -> 4 [] c = "5" -> 5 [] c = "6" -> 6 [] c = "7" -> 7
      [] c = "8" -> 8 [] c = "9" -> 9

Whitespace == {" ", "\t", "\n", "\r"}

RECURSIVE Keep(_, _)
\* re.sub(r'[^...]', '', s): keep only the characters of the set
Keep(s, set) ==
    IF s = "" THEN ""
    ELSE (IF Ch(s, 1) \in set THEN Ch(s, 1) ELSE "") \o Keep(SubSeq(s, 2, Len(s)), set)

RECURSIVE Replace(_, _, _)
\* str.replace(old, new) for a one-character old
Replace(s, old, new) ==
    IF s = "" THEN ""
    ELSE (IF Ch(s, 1) = old THEN new ELSE Ch(s, 1)) \o Replace(SubSeq(s, 2, Len(s)), old, new)

\* str.count(c) for a one-character c
Count(s, c) == Cardinality({i \in 1..Len(s) : Ch(s, i) = c})

Contains(s, c) == \E i \in 1..Len(s) : Ch(s, i) = c

\* str.rfind(c): the greatest index holding c (from 1), 0 when there is none
RFind(s, c) ==
    IF Contains(s, c) THEN CHOOSE i \in 1..Len(s) :
                               /\ Ch(s, i) = c
                               /\ \A j \in (i+1)..Len(s) : Ch(s, j) # c
    ELSE 0

RECURSIVE LStrip(_)
LStrip(s) == IF s # "" /\ Ch(s, 1) \in Whitespace THEN LStrip(SubSeq(s, 2, Len(s))) ELSE s

RECURSIVE RStrip(_)
RStrip(s) ==
    IF s # "" /\ Ch(s, Len(s)) \in Whitespace THEN RStrip(SubSeq(s, 1, Len(s) - 1)) ELSE s

\* str.strip()
Strip(s) == RStrip(LStrip(s))

\* the number of consecutive digits starting at position i
RECURSIVE DigitRun(_, _)
DigitRun(s, i) == IF i <= Len(s) /\ IsDigit(Ch(s, i)) THEN 1 + DigitRun(s, i + 1) ELSE 0

\* [.,]\d{n} matches at position i
HasGroup(s, i, n) ==
    /\ i + n <= Len(s)
    /\ Ch(s, i) \in {".", ","}
    /\ \A k \in 1..n : IsDigit(Ch(s, i + k))

\* (?:[.,]\d{3})* greedy from position i: the position after it
RECURSIVE Groups3(_, _)
Groups3(s, i) == IF HasGroup(s, i, 3) THEN Groups3(s, i + 4) ELSE i

\* (?:[.,]\d{2})? greedy from position i: the position after it
Opt2(s, i) == IF HasGroup(s, i, 2) THEN i + 3 ELSE i

-----------------------------------------------------------------------------
(* Values: None, or a decimal m * 10^(-f) in lowest form                   *)

None == [none |-> TRUE, m |-> 0, f |-> 0]

RECURSIVE Lowest(_, _)
Lowest(m, f) ==
    IF f > 0 /\ m % 10 = 0 THEN Lowest(m \div 10, f - 1) ELSE [none |-> FALSE, m |-> m, f |-> f]

Num(m, f) == Lowest(m, f)

RECURSIVE DigitsToInt(_)
\* the integer written by a string of digits ("" is 0)
DigitsToInt(s) ==
    IF s = "" THEN 0
    ELSE 10 * DigitsToInt(SubSeq(s, 1, Len(s) - 1)) + DigitVal(Ch(s, Len(s)))

\* float(s) for s over digits, '.', '-': None stands for the ValueError
FloatOf(s) ==
    LET neg  == s # "" /\ Ch(s, 1) = "-"
        body == IF neg THEN SubSeq(s, 2, Len(s)) ELSE s
        dot  == RFind(body, ".")
        ok   == /\ \A i \in 1..Len(body) : Ch(body, i) \in Digits \cup {"."}
                /\ Count(body, ".") <= 1
                /\ \E i \in 1..Len(body) : IsDigit(Ch(body, i))
        f    == IF dot = 0 THEN 0 ELSE Len(body) - dot
        m    == DigitsToInt(Keep(body, Digits))
    IN  IF ok THEN Num(IF neg THEN -m ELSE m, f) ELSE None

-----------------------------------------------------------------------------
(* parse_number_string (src/FusionPDF-web.py)                              *)

EndsSepThree(s, sep) ==
    \* re.search(r'<sep>\d{3}$', s)
    /\ Len(s) >= 4
    /\ Ch(s, Len(s) - 3) = sep
    /\ \A k \in 0..2 : IsDigit(Ch(s, Len(s) - k))

parse_number_string(s0) ==
    LET s1 == Keep(Strip(s0), Digits \cup {".", ",", "-"})
        both == Contains(s1, ".") /\ Contains(s1, ",")
        s2 == IF both
              THEN IF RFind(s1, ",") > RFind(s1, ".")
                   THEN Replace(Replace(s1, ".", ""), ",", ".")
                   ELSE Replace(s1, ",", "")
              ELSE LET a == IF Count(s1, ".") > 1 THEN Replace(s1, ".", "")
                            ELSE IF Count(s1, ".") = 1 /\ EndsSepThree(s1, ".")
                                 THEN Replace(s1, ".", "")
                                 ELSE s1
                   IN  IF Count(a, ",") > 1 THEN Replace(a, ",", "")
                       ELSE IF Count(a, ",") = 1
                            THEN IF EndsSepThree(a, ",") THEN Replace(a, ",", "")
                                                         ELSE Replace(a, ",", ".")
                            ELSE a
        s3 == Keep(s2, Digits \cup {".", "-"})
    IN  IF s0 = "" \/ s1 = "" THEN None ELSE FloatOf(s3)

-----------------------------------------------------------------------------
(* The numeric-token patterns                                              *)

\* [\d]+(?:[.,]\d{3})*(?:[.,]\d{2})?  (fusion_core) matched at position i:
\* the position after the match, 0 when there is no match
CoreNumberEnd(s, i) ==
    LET d == DigitRun(s, i)
    IN  IF d = 0 THEN 0 ELSE Opt2(s, Groups3(s, i + d))

\* (\d{1,3}(?:[.,]\d{3})+(?:[.,]\d{2})?|\d+[.,]\d{2}|\d+)  (FusionPDF-web)
\* matched at position i: the position after the match, 0 when there is none.
\* The alternatives are tried in order; \d{1,3} followed by a separator can
\* only be the whole digit run.
WebNumberEnd(s, i) ==
    LET d == DigitRun(s, i)
    IN  IF d = 0 THEN 0
        ELSE IF d <= 3 /\ HasGroup(s, i + d, 3) THEN Opt2(s, Groups3(s, i + d))
        ELSE IF HasGroup(s, i + d, 2) THEN i + d + 3
        ELSE i + d

-----------------------------------------------------------------------------
(* The inline conversion of extract_value_from_pdf (src/utils/fusion_core.py) *)

\* the "not found" marker extract_value_from_pdf returns
NotFound == Num(-1, 0)

\* float(raw.replace('.', '').replace(',', '.')), with the function's
\* "except Exception: return -1"
inline_float(raw) ==
    LET v == FloatOf(Replace(Replace(raw, ".", ""), ",", "."))
    IN  IF v = None THEN NotFound ELSE v

-----------------------------------------------------------------------------
(* More string helpers                                                     *)

UpperChars == "ABCDEFGHIJKLMNOPQRSTUVWXYZ"

LowerChars == "abcdefghijklmnopqrstuvwxyz"

LowerCh(c) ==
    IF \E i \in 1..26 : Ch(UpperChars, i) = c
    THEN Ch(LowerChars, CHOOSE i \in 1..26 : Ch(UpperChars, i) = c)
    ELSE c

RECURSIVE Lower(_)
\* str.lower()
Lower(s) == IF s = "" THEN "" ELSE LowerCh(Ch(s, 1)) \o Lower(SubSeq(s, 2, Len(s)))

\* sub occurs in s at position i
StartsAt(s, i, sub) ==
    /\ i >= 1
    /\ i + Len(sub) - 1 <= Len(s)
    /\ SubSeq(s, i, i + Len(sub) - 1) = sub

\* sub in s
ContainsStr(s, sub) == \E i \in 1..(Len(s) + 1) : StartsAt(s, i, sub)

\* the position after the longest run of characters of the set starting at i
RECURSIVE SkipRun(_, _, _)
SkipRun(s, i, set) ==
    IF i <= Len(s) /\ Ch(s, i) \in set THEN SkipRun(s, i + 1, set) ELSE i

RECURSIVE SplitLines(_)
\* str.splitlines(), lines ending at "\n"
SplitLines(text) ==
    IF text = "" THEN <<>>
    ELSE IF Contains(text, "\n")
         THEN LET n == CHOOSE i \in 1..Len(text) :
                           /\ Ch(text, i) = "\n"
                           /\ \A j \in 1..(i - 1) : Ch(text, j) # "\n"
              IN  <<SubSeq(text, 1, n - 1)>> \o SplitLines(SubSeq(text, n + 1, Len(text)))
         ELSE <<text>>

RECURSIVE NormalizeSpace(_)
\* re.sub(r'\s+', ' ', text)
NormalizeSpace(text) ==
    IF text = "" THEN ""
    ELSE IF Ch(text, 1) \in Whitespace
         THEN " " \o NormalizeSpace(SubSeq(text, SkipRun(text, 1, Whitespace), Len(text)))
         ELSE Ch(text, 1) \o NormalizeSpace(SubSeq(text, 2, Len(text)))

Max(a, b) == IF a >= b THEN a ELSE b

Min(a, b) == IF a <= b THEN a ELSE b

RECURSIVE Pow10(_)
Pow10(n) == IF n = 0 THEN 1 ELSE 10 * Pow10(n - 1)

\* the decimal v written with k fractional digits, as an integer (k >= v.f)
Scaled(v, k) == v.m * Pow10(k - v.f)

\* v < w for two numbers
Less(v, w) ==
    LET k == Max(v.f, w.f) IN Scaled(v, k) < Scaled(w, k)

-----------------------------------------------------------------------------
(* Candidate extraction near a label (src/FusionPDF-web.py)                *)

\* the lines_down the extractor passes
LinesDown == 3

\* the characters of context taken on each side of a token
ContextPad == 4

RECURSIVE FindTokens(_, _)
\* re.finditer(<number pattern>, target_line): tokens with their start (from 0)
FindTokens(line, i) ==
    IF i > Len(line) THEN <<>>
    ELSE LET e == WebNumberEnd(line, i)
         IN  IF e = 0 THEN FindTokens(line, i + 1)
             ELSE <<[token |-> SubSeq(line, i, e - 1), pos |-> i - 1]>> \o FindTokens(line, e)

\* target_line[max(0, pos - 4): pos + len(token) + 4]
Context(line, pos, tok) ==
    SubSeq(line, Max(1, pos - ContextPad + 1), Min(Len(line), pos + Len(tok) + ContextPad))

\* the token is rejected as a percentage
PercentContext(line, pos, tok) ==
    LET context == Context(line, pos, tok)
    IN  Contains(context, "%") \/ ContainsStr(Lower(context), "percent")

\* the candidates of line number ln (from 0) of the text
LineCandidates(lines, ln) ==
    LET target_line == lines[ln + 1]
        found == FindTokens(target_line, 1)
        kept  == SelectSeq(found, LAMBDA m : ~PercentContext(target_line, m.pos, m.token))
    IN  [k \in 1..Len(kept) |->
            [token |-> kept[k].token, ln |-> ln, pos |-> kept[k].pos,
             line_text |-> Strip(target_line)]]

RECURSIVE WindowCandidates(_, _, _, _)
\* for j in range(0, lines_down + 1), from j on
WindowCandidates(lines, i, j, lines_down) ==
    IF j > lines_down \/ i + j >= Len(lines) THEN <<>>
    ELSE LineCandidates(lines, i + j) \o WindowCandidates(lines, i, j + 1, lines_down)

RECURSIVE ScanLines(_, _, _, _)
\* for i, line in enumerate(lines), from line i (from 0) on
ScanLines(lines, i, label, lines_down) ==
    IF i >= Len(lines) THEN <<>>
    ELSE (IF ContainsStr(Lower(lines[i + 1]), Lower(label))
          THEN WindowCandidates(lines, i, 0, lines_down)
          ELSE <<>>) \o ScanLines(lines, i + 1, label, lines_down)

find_number_candidates_near_label(text, label, lines_down) ==
    ScanLines(SplitLines(text), 0, label, lines_down)

\* len(re.sub(r'\D', '', token))
DigitsCount(tok) == Len(Keep(tok, Digits))

\* the sort key (digits_count, num) of a is greater than that of b
KeyGreater(a, b) ==
    \/ a.digits_count > b.digits_count
    \/ a.digits_count = b.digits_count /\ Less(b.num, a.num)

\* select_best_candidate with the sort key (num, digits_count)
select_best_candidate_value_first(tokens) ==
    LET all == [k \in 1..Len(tokens) |->
                   [token |-> tokens[k].token,
                    num |-> parse_number_string(tokens[k].token),
                    digits_count |-> DigitsCount(tokens[k].token)]]
        parsed == {all[k] : k \in {x \in 1..Len(all) : all[x].num # None}}
    IN  IF parsed = {} THEN None
        ELSE (CHOOSE a \in parsed : \A b \in parsed : ~Less(a.num, b.num)).num

select_best_candidate(tokens) ==
    LET all == [k \in 1..Len(tokens) |->
                   [token |-> tokens[k].token,
                    num |-> parse_number_string(tokens[k].token),
                    digits_count |-> DigitsCount(tokens[k].token)]]
        parsed == {all[k] : k \in {x \in 1..Len(all) : all[x].num # None}}
    IN  IF parsed = {} THEN None
        ELSE (CHOOSE a \in parsed : \A b \in parsed : ~KeyGreater(b, a)).num

extract_best_value_for_label(text, label) ==
    LET candidates == find_number_candidates_near_label(text, label, LinesDown)
    IN  IF candidates = <<>> THEN None ELSE select_best_candidate(candidates)

-----------------------------------------------------------------------------
(* extract_value_from_pdf (src/utils/fusion_core.py), from the text read   *)

VatKeywords == {"vat", "v.a.t", "ppn"}

\* [\s\.\-] between the letters of V A T
VatSep == Whitespace \cup {".", "-"}

\* [\s:\-\(\)%] between a label and its number
LabelGap == Whitespace \cup {":", "-", "(", ")", "%"}

\* the pattern's tail  [\s\.\-]*[\s:\-\(\)%]*(<number>)  from position q:
\* the position of the number, 0 when the tail does not match
VatTail(s, q) ==
    LET d == SkipRun(s, q, VatSep \cup LabelGap)
    IN  IF /\ d <= Len(s)
           /\ IsDigit(Ch(s, d))
           /\ \E k \in q..d : /\ \A x \in q..(k - 1) : Ch(s, x) \in VatSep
                              /\ \A x \in k..(d - 1) : Ch(s, x) \in LabelGap
        THEN d ELSE 0

\* the V A T pattern matched at position i: the position of the number, or 0
VatMatchAt(s, i) ==
    LET a == SkipRun(s, i + 1, VatSep)
        t == SkipRun(s, a + 1, VatSep)
    IN  IF /\ i <= Len(s) /\ LowerCh(Ch(s, i)) = "v"
           /\ a <= Len(s) /\ LowerCh(Ch(s, a)) = "a"
           /\ t <= Len(s) /\ LowerCh(Ch(s, t)) = "t"
        THEN VatTail(s, t + 1) ELSE 0

\* (?i)<keyword>[\s:\-\(\)%]*(<number>) matched at position i of s, whose
\* lower-case form is low
KeywordMatchAt(s, low, i, keyword) ==
    LET d == SkipRun(s, i + Len(keyword), LabelGap)
    IN  IF /\ StartsAt(low, i, Lower(keyword))
           /\ d <= Len(s) /\ IsDigit(Ch(s, d))
        THEN d ELSE 0

\* the reach of [^\d]{0,10}
SubTotalGap == 10

\* (?:Sub\s*Total|Subtotal)[^\d]{0,10}(<number>), IGNORECASE, at position i
\* of s, whose lower-case form is low
SubTotalMatchAt(s, low, i) ==
    LET t == SkipRun(s, i + 3, Whitespace)
        q == t + 5
        d == SkipRun(s, q, {Ch(s, x) : x \in 1..Len(s)} \ Digits)
    IN  IF /\ StartsAt(low, i, "sub") /\ StartsAt(low, t, "total")
           /\ d <= Len(s) /\ IsDigit(Ch(s, d)) /\ d - q <= SubTotalGap
        THEN d ELSE 0

\* re.search: given, for every start position, where group(1) lies in the
\* match starting there (0 for no match), the position of group(1) in the
\* leftmost match, 0 when nothing matches
FirstMatch(at) ==
    LET hits == {i \in 1..Len(at) : at[i] # 0}
    IN  IF hits = {} THEN 0
        ELSE at[CHOOSE x \in hits : \A y \in hits : x <= y]

\* match.group(1) for a number found at position d ("" when d = 0)
GroupAt(s, d) == IF d = 0 THEN "" ELSE SubSeq(s, d, CoreNumberEnd(s, d) - 1)

\* round(x, 2) of the decimal m * 10^(-f).  Python rounds the binary float; the
\* two agree except on an exact decimal tie (r = p / 2), where the float's
\* rounding error decides.  No document of this model produces a tie.
Round2(m, f) ==
    IF f <= 2 THEN Num(m, f)
    ELSE LET p == Pow10(f - 2)
             q == m \div p
             r == m % p
         IN  IF 2 * r > p \/ (2 * r = p /\ q % 2 = 1) THEN Num(q + 1, 2) ELSE Num(q, 2)

\* the VAT rate of the Sub Total fallback, in hundredths
VatRatePercent == 11

\* the text extract_value_from_pdf searches
SearchedText(text0) == NormalizeSpace(text0)

IsVatKeyword(keyword) == Strip(Lower(keyword)) \in VatKeywords

\* where value_match's group(1) starts in the searched text, 0 for no match
value_match(text, keyword) ==
    LET low == Lower(text)
    IN  IF IsVatKeyword(keyword)
        THEN FirstMatch([i \in 1..Len(text) |-> VatMatchAt(text, i)])
        ELSE FirstMatch([i \in 1..Len(text) |-> KeywordMatchAt(text, low, i, keyword)])

\* where sub_match's group(1) starts in the searched text, 0 for no match
sub_match(text) ==
    LET low == Lower(text)
    IN  FirstMatch([i \in 1..Len(text) |-> SubTotalMatchAt(text, low, i)])

extract_value_from_text(text0, keyword) ==
    LET text  == SearchedText(text0)
        raw   == GroupAt(text, value_match(text, keyword))
        raw_sub  == GroupAt(text, sub_match(text))
        subtotal == FloatOf(Replace(Replace(raw_sub, ".", ""), ",", "."))
    IN  IF raw # "" THEN inline_float(raw)
        ELSE IF IsVatKeyword(keyword) /\ raw_sub # ""
             THEN IF subtotal = None THEN NotFound
                  ELSE Round2(subtotal.m * VatRatePercent, subtotal.f + 2)
             ELSE NotFound

-----------------------------------------------------------------------------
(* Comparison (src/FusionPDF-web.py, src/utils/fusion_core.py)             *)

\* rel_tol=0.005, abs_tol=1.0
DefaultRelTol == Num(5, 3)

DefaultAbsTol == Num(1, 0)

One == Num(1, 0)

\* abs(v)
AbsVal(v) == Num(IF v.m < 0 THEN -v.m ELSE v.m, v.f)

\* abs(v - w)
AbsDiff(v, w) ==
    LET k == Max(v.f, w.f)
        d == Scaled(v, k) - Scaled(w, k)
    IN  Num(IF d < 0 THEN -d ELSE d, k)

\* v <= w
LessEq(v, w) == ~Less(w, v)

\* v * w
Times(v, w) == Num(v.m * w.m, v.f + w.f)

\* compare_values with a denominator taken from val1
compare_values_denom_val1(val1, val2, rel_tol, abs_tol) ==
    IF val1 = None \/ val2 = None
    THEN [match |-> FALSE, reason |-> "MISSING", val1 |-> val1, val2 |-> val2]
    ELSE IF LessEq(AbsDiff(val1, val2), abs_tol)
    THEN [match |-> TRUE, reason |-> "ABS", val1 |-> val1, val2 |-> val2]
    ELSE LET denom == IF Less(AbsVal(val1), One) THEN One ELSE AbsVal(val1)
         IN  IF LessEq(AbsDiff(val1, val2), Times(rel_tol, denom))
             THEN [match |-> TRUE, reason |-> "REL", val1 |-> val1, val2 |-> val2]
             ELSE [match |-> FALSE, reason |-> "DIFF", val1 |-> val1, val2 |-> val2]

\* the reason is kept as its tag: "MISSING", "ABS" (within tol), "REL"
\* (within rel_tol), "DIFF".  x / denom <= rel_tol is decided exactly, as
\* x <= rel_tol * denom (denom >= 1).
compare_values(val1, val2, rel_tol, abs_tol) ==
    IF val1 = None \/ val2 = None
    THEN [match |-> FALSE, reason |-> "MISSING", val1 |-> val1, val2 |-> val2]
    ELSE IF LessEq(AbsDiff(val1, val2), abs_tol)
    THEN [match |-> TRUE, reason |-> "ABS", val1 |-> val1, val2 |-> val2]
    ELSE LET denom == IF Less(AbsVal(val2), One) THEN One ELSE AbsVal(val2)
         IN  IF LessEq(AbsDiff(val1, val2), Times(rel_tol, denom))
             THEN [match |-> TRUE, reason |-> "REL", val1 |-> val1, val2 |-> val2]
             ELSE [match |-> FALSE, reason |-> "DIFF", val1 |-> val1, val2 |-> val2]

\* An uploaded file: the text that can be acquired from it, and whether
\* PyPDF2 can read it (a corrupt or encrypted file cannot be read).
File(text, readable) == [text |-> text, readable |-> readable]

\* extract_value_from_pdf(pdf_file_path, keyword): the path exists and ends
\* in .pdf (the uploader stores it so); a file PyPDF2 cannot read raises
\* inside the try and gives -1
extract_value_from_pdf(pdf_file, keyword) ==
    IF ~pdf_file.readable THEN NotFound
    ELSE extract_value_from_text(pdf_file.text, keyword)

compare_pdf_values(invoice_pdf, facture_pdf, keywords) ==
    LET invoice_value1 == extract_value_from_pdf(invoice_pdf, keywords.invoice_k1)
        invoice_value2 == extract_value_from_pdf(invoice_pdf, keywords.invoice_k2)
        facture_value1 == extract_value_from_pdf(facture_pdf, keywords.facture_k1)
        facture_value2 == extract_value_from_pdf(facture_pdf, keywords.facture_k2)
    IN  [invoice_value1 |-> invoice_value1,
         invoice_value2 |-> invoice_value2,
         facture_value1 |-> facture_value1,
         facture_value2 |-> facture_value2,
         match |-> (invoice_value1 = facture_value1) /\ (invoice_value2 = facture_value2)]

\* merge_pdfs / merge_pdfs_bytes: PdfReader raises on a file it cannot read
MergeRaises(pdf1, pdf2) == ~pdf1.readable \/ ~pdf2.readable

-----------------------------------------------------------------------------
(* Specification SpecNorm: every conversion of a raw token to a number     *)

RECURSIVE StringsUpTo(_)
StringsUpTo(n) ==
    IF n = 0 THEN {""}
    ELSE LET p == StringsUpTo(n - 1) IN p \cup {s \o c : s \in p, c \in TokenAlphabet}

ExampleTokens ==
    {"1.234,56", "1,234.56", "1.234.567", "1,234,567", "1.234", "1,5",
     "Rp 1.234,56", " 12,50 ", "-1.234,5", "1-2", "$", "1.000.000", "110.000"}

Tokens == StringsUpTo(MaxTokenLen) \cup ExampleTokens

NormIdle == token = "" /\ norm_pc = "idle" /\ norm_out = None

ExtIdle ==
    ext_text = "" /\ ext_label = "" /\ ext_pc = "idle" /\ ext_tokens = <<>> /\ ext_out = None

NoResult == [match |-> FALSE, reason |-> "none"]

NoFile == File("", FALSE)

CmpIdle ==
    /\ cmp_val1 = None /\ cmp_val2 = None /\ cmp_inv = NoFile /\ cmp_fac = NoFile
    /\ cmp_pc = "idle" /\ cmp_out = NoResult

PageIdle ==
    /\ page = "idle" /\ invoices = {} /\ factures = {} /\ force_merge = FALSE
    /\ pc = "idle" /\ todo = <<>> /\ results = <<>>
    /\ success = <<>> /\ failed = <<>> /\ merged = {}

\* no document is being read
NoDoc == [reader_ok |-> FALSE, convert_ok |-> FALSE, pages |-> <<>>]

AcqIdle ==
    /\ acq_doc = NoDoc /\ acq_pc = "idle" /\ acq_i = 0
    /\ acq_text = "" /\ acq_ocr_text = "" /\ acq_error = FALSE

InitNorm ==
    /\ token \in Tokens
    /\ norm_pc = "start"
    /\ norm_out = None
    /\ ExtIdle /\ CmpIdle /\ PageIdle /\ AcqIdle

\* select_best_candidate's call parse_number_string(token)
ParseNumberString ==
    /\ norm_pc = "start"
    /\ norm_out' = parse_number_string(token)
    /\ norm_pc' = "parse_number_string"
    /\ UNCHANGED <<token, extVars, cmpVars, pageVars, acqVars>>

\* extract_value_from_pdf's conversion of the captured group: the token is
\* one the pattern's group can capture
InlineConvert ==
    /\ norm_pc = "start"
    /\ CoreNumberEnd(token, 1) = Len(token) + 1
    /\ norm_out' = inline_float(token)
    /\ norm_pc' = "inline"
    /\ UNCHANGED <<token, extVars, cmpVars, pageVars, acqVars>>

NextNorm == ParseNumberString \/ InlineConvert

SpecNorm == InitNorm /\ [][NextNorm]_vars

-----------------------------------------------------------------------------
(* Claims about the conversions (specification SpecNorm)                   *)

\* the characters of the token that take part in the conversion
Cleaned(t) == Keep(t, Digits \cup {".", ",", "-"})

\* what a conversion reports for a token that is no number: None from
\* parse_number_string, the marker -1 from extract_value_from_pdf
Expected(path, v) == IF path = "inline" /\ v = None THEN NotFound ELSE v

\* the rightmost of the two separator kinds is the decimal separator, every
\* occurrence of the other kind is removed
RightmostIsDecimal(t) ==
    LET s   == Cleaned(t)
        dec == IF RFind(s, ",") > RFind(s, ".") THEN "," ELSE "."
        oth == IF dec = "," THEN "." ELSE ","
    IN  FloatOf(Replace(Replace(s, oth, ""), dec, "."))

HasBothKinds(t) == Contains(t, ".") /\ Contains(t, ",")

HasOneKind(t) == Contains(t, ".") # Contains(t, ",")

\* C7: for every token holding both '.' and ',', every conversion of a raw
\* token to a number (parse_number_string and the inline conversion of
\* extract_value_from_pdf) takes the rightmost separator kind as the decimal
\* separator and removes the other kind.
C7_RightmostDecimalEverywhere ==
    (norm_pc # "start" /\ HasBothKinds(token))
        => norm_out = Expected(norm_pc, RightmostIsDecimal(token))

\* C7, restricted to parse_number_string: there the rule holds.
C7_ParseNumberStringOnly ==
    (norm_pc = "parse_number_string" /\ HasBothKinds(token))
        => norm_out = RightmostIsDecimal(token)

\* a token of one separator kind: two or more occurrences are thousands
\* separators; a single one is the decimal point unless exactly three digits
\* follow it to the end of the token
OneKindRule(t) ==
    LET s   == Cleaned(t)
        sep == IF Contains(s, ".") THEN "." ELSE ","
        p   == RFind(s, sep)
        threeToEnd == /\ Len(s) - p = 3
                      /\ \A i \in (p + 1)..Len(s) : IsDigit(Ch(s, i))
    IN  IF Count(s, sep) >= 2 \/ threeToEnd
        THEN FloatOf(Replace(s, sep, ""))
        ELSE FloatOf(Replace(s, sep, "."))

\* C8: for every token holding only one separator kind, every conversion
\* strips two or more occurrences as thousands separators, and reads a single
\* occurrence as the decimal point unless exactly three digits follow it to
\* the end of the token.
C8_OneKindEverywhere ==
    (norm_pc # "start" /\ HasOneKind(token))
        => norm_out = Expected(norm_pc, OneKindRule(token))

\* C8, restricted to parse_number_string: there the rule holds.
C8_ParseNumberStringOnly ==
    (norm_pc = "parse_number_string" /\ HasOneKind(token))
        => norm_out = OneKindRule(token)

-----------------------------------------------------------------------------
(* Specification SpecExt: the two extraction paths on a document text      *)

SampleLines ==
    {"VAT 11% of 1.000.000 is 110.000",
     "VAT 11 percent",
     "VAT: 110.000",
     "Sub Total 1.000.000",
     "Rate 11%",
     "12/01/2024",
     "VAT 1,00 25",
     "Sub Total 1.000 2.000",
     "Subtotal: 1.234,56",
     "SUB TOTAL (IDR) 1,234,567"}

RECURSIVE TextsOfLines(_)
\* the texts of 1..n sample lines
TextsOfLines(n) ==
    IF n = 1 THEN SampleLines
    ELSE LET p == TextsOfLines(n - 1)
         IN  p \cup {t \o "\n" \o l : t \in p, l \in SampleLines}

\* documents whose numbers lie some lines below the label
WindowTexts ==
    {"Sub Total\n\n\n1.000\n2.000.000",
     "VAT\n12/01/2024\n110,00\n\nSub Total\n\n\n\n3.000.000",
     "VAT 25\n\nvat\n1,00\n\n\n999.999"}

Texts == {""} \cup TextsOfLines(MaxLines) \cup WindowTexts

Labels == {"VAT", " ppn ", "Sub Total"}

InitExt ==
    /\ ext_text \in Texts
    /\ ext_label \in Labels
    /\ ext_pc = "start"
    /\ ext_tokens = <<>>
    /\ ext_out = None
    /\ NormIdle /\ CmpIdle /\ PageIdle /\ AcqIdle

\* the tokens find_number_candidates_near_label kept: token, line, position
WebTokens(t, l) ==
    LET c == find_number_candidates_near_label(t, l, LinesDown)
    IN  [k \in 1..Len(c) |-> [token |-> c[k].token, ln |-> c[k].ln, pos |-> c[k].pos]]

\* the token extract_value_from_pdf takes its value from: group(1) of
\* value_match, else of sub_match for a VAT keyword
CoreTokens(t, l) ==
    LET s == SearchedText(t)
        d == value_match(s, l)
        e == IF IsVatKeyword(l) THEN sub_match(s) ELSE 0
    IN  IF d # 0 THEN <<[token |-> GroupAt(s, d), ln |-> 0, pos |-> d - 1]>>
        ELSE IF e # 0 THEN <<[token |-> GroupAt(s, e), ln |-> 0, pos |-> e - 1]>>
        ELSE <<>>

\* FusionPDF-web: extract_best_value_for_label(ext_text, ext_label)
ExtractBestValue ==
    /\ ext_pc = "start"
    /\ ext_tokens' = WebTokens(ext_text, ext_label)
    /\ ext_out' = extract_best_value_for_label(ext_text, ext_label)
    /\ ext_pc' = "web"
    /\ UNCHANGED <<ext_text, ext_label, normVars, cmpVars, pageVars, acqVars>>

\* fusion_core: extract_value_from_pdf(path, keyword) on a readable file
ExtractValueFromPdf ==
    /\ ext_pc = "start"
    /\ ext_tokens' = CoreTokens(ext_text, ext_label)
    /\ ext_out' = extract_value_from_text(ext_text, ext_label)
    /\ ext_pc' = "core"
    /\ UNCHANGED <<ext_text, ext_label, normVars, cmpVars, pageVars, acqVars>>

NextExt == ExtractBestValue \/ ExtractValueFromPdf

SpecExt == InitExt /\ [][NextExt]_vars

\* the line a kept token lies on
TokenLine(tok) ==
    IF ext_pc = "web" THEN SplitLines(ext_text)[tok.ln + 1] ELSE SearchedText(ext_text)

\* the token is immediately followed by '%' or by the word "percent"
PercentToken(line, tok) ==
    LET e == tok.pos + Len(tok.token) + 1
    IN  \/ e <= Len(line) /\ Ch(line, e) = "%"
        \/ StartsAt(Lower(line), e, "percent")
        \/ StartsAt(Lower(line), e, " percent")

PercentExample == "VAT 11% of 1.000.000 is 110.000"

\* C9: in every extraction path no token immediately followed by '%' or by
\* the word "percent" is kept for selection, and for the line
\* "VAT 11% of 1.000.000 is 110.000" with label VAT the value is 110000.0 or
\* 1000000.0, never 11.0.
C9_PercentNeverSelected ==
    ext_pc \in {"web", "core"} =>
        /\ \A k \in 1..Len(ext_tokens) : ~PercentToken(TokenLine(ext_tokens[k]), ext_tokens[k])
        /\ (ext_text = PercentExample /\ ext_label = "VAT")
              => ext_out \in {Num(110000, 0), Num(1000000, 0)}

\* C9, for the '%' sign in the candidate path of FusionPDF-web alone: there no
\* kept token is followed by '%', and the example line gives 1000000.0.
C9_WebPercentSign ==
    ext_pc = "web" =>
        /\ \A k \in 1..Len(ext_tokens) :
              LET e == ext_tokens[k].pos + Len(ext_tokens[k].token) + 1
                  line == TokenLine(ext_tokens[k])
              IN  ~(e <= Len(line) /\ Ch(line, e) = "%")
        /\ (ext_text = PercentExample /\ ext_label = "VAT") => ext_out = Num(1000000, 0)

-----------------------------------------------------------------------------
(* Specification SpecCmp: one comparison, in each comparison path          *)

\* the keywords of the pages (the facture keywords are entered shorter than
\* the pages' defaults)
Keywords ==
    [invoice_k1 |-> "Sub Total", invoice_k2 |-> "VAT",
     facture_k1 |-> "Harga Jual", facture_k2 |-> "Jumlah PPN"]

InvoiceOk == "Sub Total 1.000,00\nVAT 110,00"

InvoiceNear == "Sub Total 1.000,50\nVAT 110,00"

FactureOk == "Harga Jual 1.000,00\nJumlah PPN 110,00"

FactureOther == "Harga Jual 2.000,00\nJumlah PPN 220,00"

InvoiceTexts == {InvoiceOk, InvoiceNear, "Sub Total 1.000,00", "Invoice 7", ""}

FactureTexts == {FactureOk, FactureOther, "Harga Jual 1.000,00", ""}

\* the files that can be uploaded: readable ones, a corrupt one, and one
\* PyPDF2 cannot read although its pages can be rendered and recognised
InvoiceFiles ==
    {File(t, TRUE) : t \in InvoiceTexts} \cup {File("", FALSE), File(InvoiceOk, FALSE)}

FactureFiles ==
    {File(t, TRUE) : t \in FactureTexts} \cup {File("", FALSE), File(FactureOk, FALSE)}

CmpValues ==
    {None, Num(-1, 0), Num(0, 0), Num(5, 1), Num(1, 0), Num(2, 0),
     Num(100, 0), Num(1009, 1), Num(101, 0), Num(1011, 1),
     Num(995, 0), Num(1000, 0), Num(1004, 0), Num(1005, 0), Num(1006, 0)}

InitCmp ==
    /\ \/ /\ cmp_pc = "values"
          /\ cmp_val1 \in CmpValues /\ cmp_val2 \in CmpValues
          /\ cmp_inv = NoFile /\ cmp_fac = NoFile
       \/ /\ cmp_pc = "pdfs"
          /\ cmp_val1 = None /\ cmp_val2 = None
          /\ cmp_inv \in InvoiceFiles /\ cmp_fac \in FactureFiles
    /\ cmp_out = NoResult
    /\ NormIdle /\ ExtIdle /\ PageIdle /\ AcqIdle

\* FusionPDF-web: compare_values(val1, val2) with the default tolerances
CompareValues ==
    /\ cmp_pc = "values"
    /\ cmp_out' = compare_values(cmp_val1, cmp_val2, DefaultRelTol, DefaultAbsTol)
    /\ cmp_pc' = "compare_values"
    /\ UNCHANGED <<cmp_val1, cmp_val2, cmp_inv, cmp_fac, normVars, extVars, pageVars, acqVars>>

\* fusion_core: compare_pdf_values(invoice_pdf, facture_pdf, keywords)
ComparePdfValues ==
    /\ cmp_pc = "pdfs"
    /\ cmp_out' = compare_pdf_values(cmp_inv, cmp_fac, Keywords)
    /\ cmp_pc' = "compare_pdf_values"
    /\ UNCHANGED <<cmp_val1, cmp_val2, cmp_inv, cmp_fac, normVars, extVars, pageVars, acqVars>>

NextCmp == CompareValues \/ ComparePdfValues

SpecCmp == InitCmp /\ [][NextCmp]_vars

\* an extracted value is absent: None in FusionPDF-web, the marker -1 in
\* fusion_core
Absent(v) == v = None \/ v = NotFound

\* C1: whenever either value of a compared pair is absent, the comparison is
\* a non-match (with reason MISSING where a reason is given), in
\* compare_values and in compare_pdf_values, also when both are absent.
C1_AbsentNeverMatches ==
    /\ cmp_pc = "compare_values" =>
          ((cmp_val1 = None \/ cmp_val2 = None)
              => ~cmp_out.match /\ cmp_out.reason = "MISSING")
    /\ cmp_pc = "compare_pdf_values" =>
          ((\/ Absent(cmp_out.invoice_value1) \/ Absent(cmp_out.facture_value1)
            \/ Absent(cmp_out.invoice_value2) \/ Absent(cmp_out.facture_value2))
              => ~cmp_out.match)

\* C1, for compare_values alone: there an absent value is always MISSING.
C1_CompareValuesOnly ==
    (cmp_pc = "compare_values" /\ (cmp_val1 = None \/ cmp_val2 = None))
        => ~cmp_out.match /\ cmp_out.reason = "MISSING"

\* a value of CmpValues in tenths
Tenths(v) == v.m * Pow10(1 - v.f)

Abs(n) == IF n < 0 THEN -n ELSE n

\* C2: with both values present and the default tolerances, compare_values
\* decides, first hit first: |a-b| <= 1.0 is a match (ABS); else
\* |a-b| / max(|b|, 1.0) <= 0.005 is a match (REL); else no match (DIFF).  A
\* difference of at most 1.0 always matches; compare(100.0, 101.1) does not.
C2_DecisionOrder ==
    (cmp_pc = "compare_values" /\ cmp_val1 # None /\ cmp_val2 # None) =>
        LET d   == Abs(Tenths(cmp_val1) - Tenths(cmp_val2))
            den == IF Abs(Tenths(cmp_val2)) > 10 THEN Abs(Tenths(cmp_val2)) ELSE 10
            abs_hit == d <= 10
            rel_hit == 1000 * d <= 5 * den
        IN  /\ abs_hit => cmp_out.match /\ cmp_out.reason = "ABS"
            /\ (~abs_hit /\ rel_hit) => cmp_out.match /\ cmp_out.reason = "REL"
            /\ (~abs_hit /\ ~rel_hit) => ~cmp_out.match /\ cmp_out.reason = "DIFF"
            /\ (cmp_val1 = Num(100, 0) /\ cmp_val2 = Num(1011, 1)) => ~cmp_out.match
            /\ cmp_out.val1 = cmp_val1 /\ cmp_out.val2 = cmp_val2

\* C2's case: a pair further apart than abs_tol that matches by rel_tol
C2_Witness ==
    /\ cmp_pc = "compare_values"
    /\ cmp_out.match /\ cmp_out.reason = "REL"
    /\ cmp_val1 = Num(995, 0) /\ cmp_val2 = Num(1000, 0)

-----------------------------------------------------------------------------
(* Specification Spec: the three pages that compare and merge              *)
(*   "Single Comparison", "Bulk Comparison"  (src/FusionPDF-web.py)        *)
(*   "2_Bulk_Comparison"                     (src/pages/2_Bulk_Comparison.py) *)
(* A run starts with the files uploaded and ends "done", or "raised" when  *)
(* an exception leaves the script.  The content of a file is read when the *)
(* loop reaches it.  Loops visit the names in ascending order.             *)

Names == 1..MaxFiles

BulkPages == {"Bulk Comparison", "2_Bulk_Comparison"}

RECURSIVE SeqOf(_)
\* the names of a set, in ascending order
SeqOf(S) ==
    IF S = {} THEN <<>>
    ELSE LET n == CHOOSE x \in S : \A y \in S : x <= y
         IN  <<n>> \o SeqOf(S \ {n})

\* what the web pages extract and compare for one pair of files
\* (FusionPDF-web.py lines 291-297; the text is extract_text_from_pdf's)
WebCompare(inv, fac) ==
    LET inv_val1 == extract_best_value_for_label(inv.text, Keywords.invoice_k1)
        inv_val2 == extract_best_value_for_label(inv.text, Keywords.invoice_k2)
        fac_val1 == extract_best_value_for_label(fac.text, Keywords.facture_k1)
        fac_val2 == extract_best_value_for_label(fac.text, Keywords.facture_k2)
    IN  [cmp1 |-> compare_values(inv_val1, fac_val1, DefaultRelTol, DefaultAbsTol),
         cmp2 |-> compare_values(inv_val2, fac_val2, DefaultRelTol, DefaultAbsTol)]

\* the comparisons of every pair of files that can be uploaded
WebTable == [inv \in InvoiceFiles, fac \in FactureFiles |-> WebCompare(inv, fac)]

CoreTable ==
    [inv \in InvoiceFiles, fac \in FactureFiles |-> compare_pdf_values(inv, fac, Keywords)]

\* can_merge = cmp["match"] or force_merge, with the flag inverted
CanMergeFlagInverted(match, force) == match \/ ~force

\* can_merge = cmp["match"] or force_merge
CanMerge(match, force) == match \/ force

\* if cmp1["match"] and cmp2["match"], with "or"
BothMatchAsOr(cmp1, cmp2) == cmp1.match \/ cmp2.match

\* if cmp1["match"] and cmp2["match"]
BothMatch(cmp1, cmp2) == cmp1.match /\ cmp2.match

Init ==
    /\ page \in {"Single Comparison"} \cup BulkPages
    /\ invoices \in SUBSET (IF page = "Single Comparison" THEN {1} ELSE Names)
    /\ factures \in SUBSET (IF page = "Single Comparison" THEN {1} ELSE Names)
    /\ force_merge \in (IF page = "2_Bulk_Comparison" THEN BOOLEAN ELSE {FALSE})
    /\ pc = "ready"
    /\ todo = <<>>
    /\ results = <<>>
    /\ success = <<>>
    /\ failed = <<>>
    /\ merged = {}
    /\ NormIdle /\ ExtIdle /\ CmpIdle /\ AcqIdle

\* Single Comparison: if st.button("Start Comparison")
StartComparison ==
    /\ page = "Single Comparison"
    /\ pc = "ready"
    /\ IF invoices = {} \/ factures = {}
       THEN /\ pc' = "done"
            /\ UNCHANGED <<results, merged>>
       ELSE \E inv \in InvoiceFiles, fac \in FactureFiles :
               \E c \in {WebTable[inv, fac]} :
                   /\ results' = <<[File |-> 1, cmp1 |-> c.cmp1, cmp2 |-> c.cmp2]>>
                   /\ IF BothMatch(c.cmp1, c.cmp2)
                      THEN IF MergeRaises(inv, fac)
                           THEN pc' = "raised" /\ UNCHANGED merged
                           ELSE pc' = "done" /\ merged' = {1}
                      ELSE pc' = "done" /\ UNCHANGED merged
    /\ UNCHANGED <<page, invoices, factures, force_merge, todo, success, failed>>
    /\ UNCHANGED <<normVars, extVars, cmpVars, acqVars>>

\* Bulk Comparison: if st.button("Start Bulk Comparison")
StartBulkComparison ==
    /\ page = "Bulk Comparison"
    /\ pc = "ready"
    /\ IF invoices = {} \/ factures = {}
       THEN pc' = "done" /\ UNCHANGED todo
       ELSE pc' = "loop" /\ todo' = SeqOf(invoices)
    /\ UNCHANGED <<page, invoices, factures, force_merge, results, success, failed, merged>>
    /\ UNCHANGED <<normVars, extVars, cmpVars, acqVars>>

\* Bulk Comparison: one pass of "for inv in invoices"
BulkIteration ==
    /\ page = "Bulk Comparison"
    /\ pc = "loop"
    /\ todo # <<>>
    /\ LET name == Head(todo)
       IN  IF name \notin factures
           THEN /\ todo' = Tail(todo)
                /\ UNCHANGED <<pc, results, success, failed, merged>>
           ELSE \E inv \in InvoiceFiles, fac \in FactureFiles :
                   \E c \in {WebTable[inv, fac]} :
                       /\ results' = Append(results, [File |-> name, cmp1 |-> c.cmp1, cmp2 |-> c.cmp2])
                       /\ IF BothMatch(c.cmp1, c.cmp2)
                          THEN IF MergeRaises(inv, fac)
                               THEN /\ pc' = "raised"
                                    /\ UNCHANGED <<todo, success, failed, merged>>
                               ELSE /\ merged' = merged \cup {name}
                                    /\ success' = Append(success, name)
                                    /\ todo' = Tail(todo)
                                    /\ UNCHANGED <<pc, failed>>
                          ELSE /\ failed' = Append(failed, name)
                               /\ todo' = Tail(todo)
                               /\ UNCHANGED <<pc, success, merged>>
    /\ UNCHANGED <<page, invoices, factures, force_merge>>
    /\ UNCHANGED <<normVars, extVars, cmpVars, acqVars>>

\* Bulk Comparison: after the loop, the counts and the downloads
BulkReport ==
    /\ page = "Bulk Comparison"
    /\ pc = "loop"
    /\ todo = <<>>
    /\ pc' = "done"
    /\ UNCHANGED <<page, invoices, factures, force_merge, todo, results, success, failed, merged>>
    /\ UNCHANGED <<normVars, extVars, cmpVars, acqVars>>

\* 2_Bulk_Comparison: if st.button("Run Bulk Comparison")
RunBulkComparison ==
    /\ page = "2_Bulk_Comparison"
    /\ pc = "ready"
    /\ LET matched_names == invoices \cap factures
       IN  IF invoices = {} \/ factures = {} \/ matched_names = {}
           THEN pc' = "done" /\ UNCHANGED todo
           ELSE pc' = "loop" /\ todo' = SeqOf(matched_names)
    /\ UNCHANGED <<page, invoices, factures, force_merge, results, success, failed, merged>>
    /\ UNCHANGED <<normVars, extVars, cmpVars, acqVars>>

\* 2_Bulk_Comparison: one pass of "for name in matched_names"
RunIteration ==
    /\ page = "2_Bulk_Comparison"
    /\ pc = "loop"
    /\ todo # <<>>
    /\ \E inv \in InvoiceFiles, fac \in FactureFiles :
       \E cmp \in {CoreTable[inv, fac]} :
          LET name == Head(todo)
              can_merge == CanMerge(cmp.match, force_merge)
          IN  IF can_merge /\ MergeRaises(inv, fac)
              THEN /\ pc' = "raised"
                   /\ UNCHANGED <<todo, results, merged>>
              ELSE /\ merged' = IF can_merge THEN merged \cup {name} ELSE merged
                   /\ results' = Append(results,
                          [File |-> name,
                           invoice_value1 |-> cmp.invoice_value1,
                           invoice_value2 |-> cmp.invoice_value2,
                           facture_value1 |-> cmp.facture_value1,
                           facture_value2 |-> cmp.facture_value2,
                           Match |-> cmp.match,
                           Merged |-> IF can_merge THEN "Merged" ELSE "Skipped"])
                   /\ todo' = Tail(todo)
                   /\ UNCHANGED pc
    /\ UNCHANGED <<page, invoices, factures, force_merge, success, failed>>
    /\ UNCHANGED <<normVars, extVars, cmpVars, acqVars>>

\* 2_Bulk_Comparison: after the loop, the table, the CSV and the ZIP
RunReport ==
    /\ page = "2_Bulk_Comparison"
    /\ pc = "loop"
    /\ todo = <<>>
    /\ pc' = "done"
    /\ UNCHANGED <<page, invoices, factures, force_merge, todo, results, success, failed, merged>>
    /\ UNCHANGED <<normVars, extVars, cmpVars, acqVars>>

Next ==
    \/ StartComparison
    \/ StartBulkComparison
    \/ BulkIteration
    \/ BulkReport
    \/ RunBulkComparison
    \/ RunIteration
    \/ RunReport

Spec == Init /\ [][Next]_vars

----------------------------------------------------------------------------
(* Text acquisition: extract_text_from_pdf of FusionPDF-web.py *)

\* if len(text.strip()) < 80
OcrThreshold == 80

\* what is printed on each page: a few words, or a full line of text
ShortContent ==
    <<"Page 1 Sub Total 1.000,00",
      "Page 2 VAT 110,00",
      "Page 3 Total 1.110,00",
      "Page 4 Items 12">>

LongContent ==
    <<"Page 1: invoice INV-0001 issued to PT Contoh Sejahtera, Jakarta. Sub Total 1.000.000,00",
      "Page 2: terms of payment, thirty days net from the date of issue. VAT 110.000,00 due",
      "Page 3: bank transfer details and authorised signature of the issuer. Total 1.110.000,00",
      "Page 4: annex with the list of delivered goods, quantities and unit prices. Items 12">>

\* page i of a document: what is printed on it, what page.extract_text()
\* does ("text": returns it, "none": returns None or "", "raises"), and what
\* pytesseract does with the rendered page ("ok", "eng_raises": only the
\* call with lang="eng" raises, "raises": the second call raises as well)
PagesAt(i) ==
    [content : {ShortContent[i], LongContent[i]},
     layer   : {"text", "none", "raises"},
     ocr     : {"ok", "eng_raises", "raises"}]

PageSeqs(n) == {ps \in [1..n -> UNION {PagesAt(i) : i \in 1..n}] : \A i \in 1..n : ps[i] \in PagesAt(i)}

\* reader_ok: PyPDF2.PdfReader opens the bytes; convert_ok: convert_from_bytes
\* renders them
Docs ==
    [reader_ok : BOOLEAN, convert_ok : BOOLEAN,
     pages : UNION {PageSeqs(n) : n \in 1..MaxPages}]

InitAcq ==
    /\ acq_doc \in Docs
    /\ acq_pc = "start"
    /\ acq_i = 0
    /\ acq_text = ""
    /\ acq_ocr_text = ""
    /\ acq_error = FALSE
    /\ NormIdle /\ ExtIdle /\ CmpIdle /\ PageIdle

\* text = ""; reader = PyPDF2.PdfReader(io.BytesIO(pdf_bytes)), inside the try
OpenReader ==
    /\ acq_pc = "start"
    /\ IF acq_doc.reader_ok
       THEN acq_pc' = "pages" /\ acq_i' = 1
       ELSE acq_pc' = "check" /\ UNCHANGED acq_i
    /\ acq_text' = ""
    /\ UNCHANGED <<acq_doc, acq_ocr_text, acq_error>>
    /\ UNCHANGED <<normVars, extVars, cmpVars, pageVars>>

\* one pass of "for page in reader.pages"; an exception leaves the loop for
\* "except Exception: text = ''"
ExtractPageText ==
    /\ acq_pc = "pages"
    /\ acq_i <= Len(acq_doc.pages)
    /\ LET p == acq_doc.pages[acq_i]
           page_text == IF p.layer = "text" THEN p.content ELSE ""
       IN  IF p.layer = "raises"
           THEN /\ acq_text' = ""
                /\ acq_pc' = "check"
                /\ UNCHANGED acq_i
           ELSE /\ acq_text' = acq_text \o page_text \o "\n"
                /\ acq_i' = acq_i + 1
                /\ UNCHANGED acq_pc
    /\ UNCHANGED <<acq_doc, acq_ocr_text, acq_error>>
    /\ UNCHANGED <<normVars, extVars, cmpVars, pageVars>>

\* if len(text.strip()) < 80, reached from the end of the loop or from except
CheckLength ==
    /\ \/ acq_pc = "check"
       \/ acq_pc = "pages" /\ acq_i > Len(acq_doc.pages)
    /\ acq_pc' = IF Len(Strip(acq_text)) < OcrThreshold THEN "convert" ELSE "returned"
    /\ UNCHANGED <<acq_doc, acq_i, acq_text, acq_ocr_text, acq_error>>
    /\ UNCHANGED <<normVars, extVars, cmpVars, pageVars>>

\* pages = convert_from_bytes(pdf_bytes, dpi=200); ocr_text = ""
ConvertFromBytes ==
    /\ acq_pc = "convert"
    /\ IF acq_doc.convert_ok
       THEN /\ acq_pc' = "ocr"
            /\ acq_i' = 1
            /\ acq_ocr_text' = ""
            /\ UNCHANGED acq_error
       ELSE /\ acq_pc' = "returned"
            /\ acq_error' = TRUE
            /\ UNCHANGED <<acq_i, acq_ocr_text>>
    /\ UNCHANGED <<acq_doc, acq_text>>
    /\ UNCHANGED <<normVars, extVars, cmpVars, pageVars>>

\* one pass of "for page in pages": image_to_string with lang="eng", in its
\* except the call without lang; if that raises too the outer except shows
\* the error and the function returns text as it is
RecognisePage ==
    /\ acq_pc = "ocr"
    /\ acq_i <= Len(acq_doc.pages)
    /\ LET p == acq_doc.pages[acq_i]
       IN  IF p.ocr = "raises"
           THEN /\ acq_pc' = "returned"
                /\ acq_error' = TRUE
                /\ UNCHANGED <<acq_i, acq_ocr_text>>
           ELSE /\ acq_ocr_text' = acq_ocr_text \o p.content \o "\n"
                /\ acq_i' = acq_i + 1
                /\ UNCHANGED <<acq_pc, acq_error>>
    /\ UNCHANGED <<acq_doc, acq_text>>
    /\ UNCHANGED <<normVars, extVars, cmpVars, pageVars>>

\* text = (text + "\n" + ocr_text).strip()
JoinText ==
    /\ acq_pc = "ocr"
    /\ acq_i > Len(acq_doc.pages)
    /\ acq_text' = Strip(acq_text \o "\n" \o acq_ocr_text)
    /\ acq_pc' = "returned"
    /\ UNCHANGED <<acq_doc, acq_i, acq_ocr_text, acq_error>>
    /\ UNCHANGED <<normVars, extVars, cmpVars, pageVars>>

NextAcq ==
    \/ OpenReader
    \/ ExtractPageText
    \/ CheckLength
    \/ ConvertFromBytes
    \/ RecognisePage
    \/ JoinText

SpecAcq == InitAcq /\ [][NextAcq]_vars

----------------------------------------------------------------------------
(* Claims on the pages *)

Range(f) == {f[i] : i \in 1..Len(f)}

Paired == invoices \cap factures

Unpaired == (invoices \cup factures) \ Paired

\* the names the run shows anything about: the rows of the table on
\* 2_Bulk_Comparison, the success and failed lists on Bulk Comparison
Reported ==
    IF page = "2_Bulk_Comparison"
    THEN {results[i].File : i \in 1..Len(results)}
    ELSE Range(success) \cup Range(failed)

\* one label pair of a row agrees: both values are there and they match
RowPairOk(r, k) ==
    IF page = "2_Bulk_Comparison"
    THEN LET iv == IF k = 1 THEN r.invoice_value1 ELSE r.invoice_value2
             fv == IF k = 1 THEN r.facture_value1 ELSE r.facture_value2
         IN  ~Absent(iv) /\ ~Absent(fv) /\ iv = fv
    ELSE LET c == IF k = 1 THEN r.cmp1 ELSE r.cmp2
         IN  ~Absent(c.val1) /\ ~Absent(c.val2) /\ c.match

\* C3: a pair has a merged output only if both of its label pairs match or
\* the force flag is set; with the flag off no pair with a failing or
\* missing comparison is merged, on the single page and in both batch loops.
C3_MergedOnlyOnProceed ==
    \A i \in 1..Len(results) :
        results[i].File \in merged =>
            \/ force_merge
            \/ RowPairOk(results[i], 1) /\ RowPairOk(results[i], 2)

\* C3, for the decision as the pages compute it: a row is merged exactly
\* when the page's own match (or the force flag) says so.
C3_MergedIffPageDecision ==
    \A i \in 1..Len(results) :
        LET r == results[i]
        IN  IF page = "2_Bulk_Comparison"
            THEN /\ (r.File \in merged) = (r.Match \/ force_merge)
                 /\ r.Match = ((r.invoice_value1 = r.facture_value1)
                                 /\ (r.invoice_value2 = r.facture_value2))
            ELSE r.File \in merged => r.cmp1.match /\ r.cmp2.match

\* C4: when a batch with at least one paired name has finished, every
\* uploaded name without a counterpart is reported and has no merged output.
C4_UnpairedReported ==
    (page \in BulkPages /\ pc = "done" /\ Paired # {}) =>
        \A n \in Unpaired : n \in Reported /\ n \notin merged

\* C4, the part that holds: a name without a counterpart is never merged.
C4_UnpairedNeverMerged == \A n \in Unpaired : n \notin merged

\* C5: a batch always goes through all its pairs: when it has stopped, by
\* finishing or by an error in one pair, every paired name has its record.
C5_BatchNeverAborts ==
    (page \in BulkPages /\ pc \in {"done", "raised"}) =>
        \A n \in Paired : n \in Reported

\* the pairs a finished batch reports as matched and as mismatched
MatchedCount ==
    IF page = "2_Bulk_Comparison"
    THEN Cardinality({i \in 1..Len(results) : results[i].Match})
    ELSE Len(success)

MismatchedCount ==
    IF page = "2_Bulk_Comparison"
    THEN Cardinality({i \in 1..Len(results) : ~results[i].Match})
    ELSE Len(failed)

\* C6: after a batch over N paired names has finished with the force flag
\* off, matched + mismatched = N and the merged outputs are as many as the
\* matched pairs.
C6_BatchCounts ==
    (page \in BulkPages /\ pc = "done" /\ ~force_merge /\ invoices # {} /\ factures # {}) =>
        /\ MatchedCount + MismatchedCount = Cardinality(Paired)
        /\ Cardinality(merged) = MatchedCount

\* C6: three pairs of which one mismatches: 2 matches, 1 mismatch, 2 merged
C6_Witness ==
    /\ page \in BulkPages /\ pc = "done" /\ ~force_merge
    /\ Cardinality(Paired) = 3
    /\ MatchedCount = 2 /\ MismatchedCount = 1
    /\ Cardinality(merged) = 2

----------------------------------------------------------------------------
(* Claims on text acquisition *)

RECURSIVE LayerText(_)
\* the embedded text of the pages that can be read, a page that cannot
\* contributing empty text
LayerText(pages) ==
    IF pages = <<>> THEN ""
    ELSE (IF Head(pages).layer = "text" THEN Head(pages).content ELSE "")
            \o "\n" \o LayerText(Tail(pages))

\* the embedded text is below the threshold, so recognition is due
RecognitionDue == Len(Strip(LayerText(acq_doc.pages))) < OcrThreshold

PagePresent(i) == ContainsStr(acq_text, acq_doc.pages[i].content)

\* the returned text has the embedded text of every page that gives it
StructuredPagesPresent ==
    \A i \in 1..Len(acq_doc.pages) :
        acq_doc.pages[i].layer = "text" => PagePresent(i)

\* where recognition is due and the pages can be rendered, the returned text
\* has the text of every page that can be recognised
RecognisedPagesPresent ==
    (RecognitionDue /\ acq_doc.convert_ok) =>
        \A i \in 1..Len(acq_doc.pages) :
            acq_doc.pages[i].ocr # "raises" => PagePresent(i)

\* C10: a page that fails in the structured path or in recognition does not
\* abort the document: the returned text still has the text of every other
\* page, before and after the failing one.
C10_PageFailureKeepsOtherPages ==
    (acq_pc = "returned" /\ acq_doc.reader_ok) =>
        StructuredPagesPresent /\ RecognisedPagesPresent

\* C10, recognition alone
C10_RecognitionPath ==
    (acq_pc = "returned" /\ acq_doc.reader_ok) => RecognisedPagesPresent

\* C10, the structured path alone
C10_StructuredPath ==
    (acq_pc = "returned" /\ acq_doc.reader_ok) => StructuredPagesPresent

\* C10, where no page fails: every page's text is returned
C10_NoFailureAllPresent ==
    (/\ acq_pc = "returned" /\ acq_doc.reader_ok
     /\ \A i \in 1..Len(acq_doc.pages) :
           acq_doc.pages[i].layer # "raises" /\ acq_doc.pages[i].ocr # "raises")
        => StructuredPagesPresent /\ RecognisedPagesPresent

----------------------------------------------------------------------------
(* Claims on the best-candidate policy *)

\* line ln (from 0) is a line holding the label or one of the 3 after it
NearLabel(lines, ln) ==
    \E i \in 0..ln :
        /\ ln - i <= 3
        /\ ContainsStr(Lower(lines[i + 1]), Lower(ext_label))

\* the number tokens of the lines near the label that are not taken for
\* percentages
Collected ==
    LET lines == SplitLines(ext_text)
    IN  UNION {{[token |-> m.token, ln |-> ln, pos |-> m.pos] :
                   m \in {x \in Range(FindTokens(lines[ln + 1], 1)) :
                             ~PercentContext(lines[ln + 1], x.pos, x.token)}}
               : ln \in {l \in 0..(Len(lines) - 1) : NearLabel(lines, l)}}

Parseable == {c \in Collected : parse_number_string(c.token) # None}

\* candidate c has the greatest digit count, and among those the greatest value
IsBest(c) ==
    \A d \in Parseable :
        \/ DigitsCount(d.token) < DigitsCount(c.token)
        \/ /\ DigitsCount(d.token) = DigitsCount(c.token)
           /\ ~Less(parse_number_string(c.token), parse_number_string(d.token))

\* C11: extract_best_value_for_label collects the candidates of the label
\* lines and of up to 3 lines after each, and returns the value of a
\* parseable candidate with the greatest digit count and, among those, the
\* greatest value; it returns None exactly when no candidate is parseable.
C11_BestCandidate ==
    ext_pc = "web" =>
        /\ Range(ext_tokens) = Collected
        /\ (ext_out = None) = (Parseable = {})
        /\ Parseable # {} =>
              \E c \in Parseable : IsBest(c) /\ ext_out = parse_number_string(c.token)

\* C11: the digit count decides against a greater value, and a number more
\* than 3 lines below the label is left out
C11_Witness ==
    /\ ext_pc = "web"
    /\ ext_out # None
    /\ \E c, d \in Parseable :
          /\ ext_out = parse_number_string(c.token)
          /\ DigitsCount(c.token) > DigitsCount(d.token)
          /\ Less(parse_number_string(c.token), parse_number_string(d.token))
    /\ LET lines == SplitLines(ext_text)
       IN  \E ln \in 0..(Len(lines) - 1) :
              /\ ~NearLabel(lines, ln)
              /\ \E m \in Range(FindTokens(lines[ln + 1], 1)) :
                    Less(ext_out, parse_number_string(m.token))

----------------------------------------------------------------------------
(* Claims on the Sub Total fallback of extract_value_from_pdf *)

\* the VAT pattern, or the keyword's pattern, finds a number in the text
ValuePatternMatches == value_match(SearchedText(ext_text), ext_label) # 0

\* the Sub Total pattern finds a figure in the text
SubTotalPatternMatches == sub_match(SearchedText(ext_text)) # 0

\* the figure the Sub Total pattern finds, as written and as a number
SubTotalRaw == GroupAt(SearchedText(ext_text), sub_match(SearchedText(ext_text)))

SubTotalFigure == parse_number_string(SubTotalRaw)

\* r has at most 2 decimals and lies within 0.005 of 11% of s
IsElevenPercentOf(r, s) ==
    /\ s # None /\ r # None
    /\ r.f <= 2
    /\ 2 * Abs(r.m * Pow10(s.f + 2 - r.f) - VatRatePercent * s.m) <= Pow10(s.f)

\* C12: for a keyword that is vat, v.a.t or ppn, when the VAT pattern finds
\* no number but a Sub Total figure s is found, extract_value_from_pdf
\* returns 11% of s rounded to 2 decimals; it returns -1 for such a keyword
\* only when neither pattern matches, and for any other keyword whenever
\* its pattern does not match.
C12_SubTotalFallback ==
    ext_pc = "core" =>
        IF IsVatKeyword(ext_label)
        THEN /\ (~ValuePatternMatches /\ SubTotalPatternMatches)
                   => IsElevenPercentOf(ext_out, SubTotalFigure)
             /\ (ext_out = NotFound) = (~ValuePatternMatches /\ ~SubTotalPatternMatches)
        ELSE ~ValuePatternMatches => ext_out = NotFound

\* the written number is one the conversion of extract_value_from_pdf reads
\* as the normalisation rule does
Convertible(raw) == raw = "" \/ inline_float(raw) = parse_number_string(raw)

\* C12, for texts whose numbers the function's own conversion reads
\* correctly: there the fallback and the -1 marker are as stated.
C12_ConvertibleFigures ==
    (/\ ext_pc = "core"
     /\ Convertible(SubTotalRaw)
     /\ Convertible(GroupAt(SearchedText(ext_text),
                            value_match(SearchedText(ext_text), ext_label))))
        => C12_SubTotalFallback

\* C12: the fallback taken on a figure with decimals, the product rounded
C12_FallbackTaken ==
    /\ ext_pc = "core"
    /\ IsVatKeyword(ext_label)
    /\ ~ValuePatternMatches /\ SubTotalPatternMatches
    /\ SubTotalFigure # None /\ SubTotalFigure.f = 2
    /\ ext_out # NotFound
    /\ IsElevenPercentOf(ext_out, SubTotalFigure)

=============================================================================
